---- MODULE Spec2Model ----
(***************************************************************************)
(* Model of the attendance service (src/src/attendance):                   *)
(* AttendanceService.checkIn / checkOut / findAll and the status request   *)
(* on top of a document store.                                             *)
(* Every handler is an async function: the store executes its query        *)
(* (findOne), the continuation after the await runs (check, new Date()),   *)
(* and the store executes the write issued by save().  Other requests may  *)
(* run between these steps.                                                *)
(***************************************************************************)
EXTENDS Integers, Sequences, FiniteSets, TLC

\* ---------------------------------------------------------------- bounds
MaxReqs  == 2     \* request slots that may be in flight at the same time
MaxCalls == 4     \* calls accepted in one behaviour
MaxTime  == 2     \* last clock value
MaxPage  == 2     \* largest page a findAll asks for
MaxLimit == 2     \* largest limit a findAll asks for

\* ------------------------------------------------------------- constants
MOCK_USER_ID == "user_001"
Null == -1        \* checkOut of an open session (schema default: null)

Reqs == 1..MaxReqs

VARIABLES
  store,          \* the attendance collection, in insertion order
  now,            \* the wall clock read by new Date()
  nextId,         \* next _id handed out when a document is constructed
  pc,             \* per request: position in its handler
  op,             \* per request: "checkIn" | "checkOut" | "none"
  activeSession,  \* per request: result of getActiveSession (<<>> is null)
  newRecord,      \* per request: the document checkIn constructed
  result,         \* per request: the response of the handler
  history,        \* responses in the order they were sent
  query           \* per request: page, limit and the two results of findAll

vars == <<store, now, nextId, pc, op, activeSession, newRecord, result, history, query>>

\* ------------------------------------------------------------ the schema
\* class Attendance: userId, checkIn, checkOut (default null); _id is the
\* key mongoose gives every document.
Attendance(id, u, cin, cout) ==
  [_id |-> id, userId |-> u, checkIn |-> cin, checkOut |-> cout]

NoResult == [status |-> "none", body |-> <<>>]

\* findAll's arguments and the results of its two queries (<<>> is pending).
NoQuery == [page |-> 0, limit |-> 0, data |-> <<>>, total |-> <<>>]

Quiescent(r) == pc[r] \in {"idle", "done"}

InFlight == Cardinality({r \in Reqs : ~Quiescent(r)})

\* --------------------------------------------------------- store queries
\* The filter of getActiveSession: { userId: MOCK_USER_ID, checkOut: null }.
\* findOne returns one of the matching documents, or null when none match.
getActiveSessionNoCheckOutFilter ==
  {i \in DOMAIN store : store[i].userId = MOCK_USER_ID}

getActiveSession ==
  {i \in DOMAIN store :
     store[i].userId = MOCK_USER_ID /\ store[i].checkOut = Null}

\* AttendanceService.isWorking, as the controller uses it: true iff an open
\* session exists.
isWorking == getActiveSession # {}

Init ==
  /\ store = <<>>
  /\ now = 0
  /\ nextId = 1
  /\ pc = [r \in Reqs |-> "idle"]
  /\ op = [r \in Reqs |-> "none"]
  /\ activeSession = [r \in Reqs |-> <<>>]
  /\ newRecord = [r \in Reqs |-> <<>>]
  /\ result = [r \in Reqs |-> NoResult]
  /\ history = <<>>
  /\ query = [r \in Reqs |-> NoQuery]

\* ---------------------------------------------------------------- clock
Tick ==
  /\ now < MaxTime
  /\ now' = now + 1
  /\ UNCHANGED <<store, nextId, pc, op, activeSession, newRecord, result, history, query>>

\* ------------------------------------------------------------- handlers
\* The controller dispatches a request to service.checkIn / checkOut, whose
\* first statement issues the findOne of getActiveSession and awaits it.
\* Request slots are interchangeable: a request takes the first free one.
Call(r, o) ==
  /\ Quiescent(r)
  /\ \A q \in Reqs : Quiescent(q) => r <= q
  /\ Len(history) + InFlight < MaxCalls
  /\ pc' = [pc EXCEPT ![r] = "findOne"]
  /\ op' = [op EXCEPT ![r] = o]
  /\ activeSession' = [activeSession EXCEPT ![r] = <<>>]
  /\ newRecord' = [newRecord EXCEPT ![r] = <<>>]
  /\ result' = [result EXCEPT ![r] = NoResult]
  /\ query' = [query EXCEPT ![r] = NoQuery]
  /\ UNCHANGED <<store, now, nextId, history>>

\* The same dispatch when requests are served one at a time.
CallSerial(r, o) ==
  /\ \A q \in Reqs : Quiescent(q)
  /\ Call(r, o)

\* The store executes the findOne.
FindOne(r) ==
  /\ pc[r] = "findOne"
  /\ \/ /\ getActiveSession = {}
        /\ activeSession' = [activeSession EXCEPT ![r] = <<>>]
     \/ \E i \in getActiveSession :
          activeSession' = [activeSession EXCEPT ![r] = <<store[i]>>]
  /\ pc' = [pc EXCEPT ![r] = "found"]
  /\ UNCHANGED <<store, now, nextId, op, newRecord, result, history, query>>

Respond(r, st, body) ==
  /\ pc' = [pc EXCEPT ![r] = "done"]
  /\ result' = [result EXCEPT ![r] = [status |-> st, body |-> body]]
  /\ history' = Append(history, [op |-> op[r], status |-> st])
  /\ activeSession' = [activeSession EXCEPT ![r] = <<>>]
  /\ newRecord' = [newRecord EXCEPT ![r] = <<>>]
  /\ query' = [query EXCEPT ![r] = NoQuery]

\* checkIn after the await: throw ConflictException, or construct the new
\* record with checkIn = new Date() and issue save().
CheckInNoGuard(r) ==
  /\ pc[r] = "found"
  /\ op[r] = "checkIn"
  /\ newRecord' = [newRecord EXCEPT
                     ![r] = <<Attendance(nextId, MOCK_USER_ID, now, Null)>>]
  /\ nextId' = nextId + 1
  /\ pc' = [pc EXCEPT ![r] = "save"]
  /\ UNCHANGED <<store, now, op, activeSession, result, history, query>>

CheckInAlwaysBuilds(r) ==
  /\ pc[r] = "found"
  /\ op[r] = "checkIn"
  /\ IF activeSession[r] # <<>>
       THEN /\ Respond(r, "ConflictException", <<>>)
            /\ store' = Append(store, Attendance(nextId, MOCK_USER_ID, now, Null))
            /\ nextId' = nextId + 1
            /\ UNCHANGED <<now, op>>
       ELSE /\ newRecord' = [newRecord EXCEPT
                     ![r] = <<Attendance(nextId, MOCK_USER_ID, now, Null)>>]
            /\ nextId' = nextId + 1
            /\ pc' = [pc EXCEPT ![r] = "save"]
            /\ UNCHANGED <<store, now, op, activeSession, result, history, query>>

CheckIn(r) ==
  /\ pc[r] = "found"
  /\ op[r] = "checkIn"
  /\ IF activeSession[r] # <<>>
       THEN /\ Respond(r, "ConflictException", <<>>)
            /\ UNCHANGED <<store, now, nextId, op>>
       ELSE /\ newRecord' = [newRecord EXCEPT
                     ![r] = <<Attendance(nextId, MOCK_USER_ID, now, Null)>>]
            /\ nextId' = nextId + 1
            /\ pc' = [pc EXCEPT ![r] = "save"]
            /\ UNCHANGED <<store, now, op, activeSession, result, history, query>>

\* The store executes the insert of newRecord.save(); the handler returns
\* the saved document.
SaveNewUnlessOpen(r) ==
  /\ pc[r] = "save"
  /\ op[r] = "checkIn"
  /\ IF getActiveSession # {}
       THEN /\ Respond(r, "ConflictException", <<>>)
            /\ UNCHANGED store
       ELSE /\ store' = Append(store, newRecord[r][1])
            /\ Respond(r, "Created", newRecord[r])
  /\ UNCHANGED <<now, nextId, op>>

SaveNewClosed(r) ==
  /\ pc[r] = "save"
  /\ op[r] = "checkIn"
  /\ store' = Append(store, [newRecord[r][1] EXCEPT !.checkOut = now])
  /\ Respond(r, "Created", newRecord[r])
  /\ UNCHANGED <<now, nextId, op>>

SaveNewUpsert(r) ==
  /\ pc[r] = "save"
  /\ op[r] = "checkIn"
  /\ store' = IF store = <<>>
                THEN <<newRecord[r][1]>>
                ELSE [store EXCEPT ![Len(store)] = newRecord[r][1]]
  /\ Respond(r, "Created", newRecord[r])
  /\ UNCHANGED <<now, nextId, op>>

SaveNew(r) ==
  /\ pc[r] = "save"
  /\ op[r] = "checkIn"
  /\ store' = Append(store, newRecord[r][1])
  /\ Respond(r, "Created", newRecord[r])
  /\ UNCHANGED <<now, nextId, op>>

\* checkOut after the await: throw BadRequestException, or set
\* activeSession.checkOut = new Date() and issue save().
CheckOutNoGuard(r) ==
  /\ pc[r] = "found"
  /\ op[r] = "checkOut"
  /\ IF activeSession[r] = <<>>
       THEN /\ Respond(r, "OK", <<>>)
            /\ UNCHANGED <<store, now, nextId, op>>
       ELSE /\ activeSession' = [activeSession EXCEPT
                                   ![r] = <<[@[1] EXCEPT !.checkOut = now]>>]
            /\ pc' = [pc EXCEPT ![r] = "save"]
            /\ UNCHANGED <<store, now, nextId, op, newRecord, result, history, query>>

CheckOutStampsEpoch(r) ==
  /\ pc[r] = "found"
  /\ op[r] = "checkOut"
  /\ IF activeSession[r] = <<>>
       THEN /\ Respond(r, "BadRequestException", <<>>)
            /\ UNCHANGED <<store, now, nextId, op>>
       ELSE /\ activeSession' = [activeSession EXCEPT
                                   ![r] = <<[@[1] EXCEPT !.checkOut = 0]>>]
            /\ pc' = [pc EXCEPT ![r] = "save"]
            /\ UNCHANGED <<store, now, nextId, op, newRecord, result, history, query>>

CheckOut(r) ==
  /\ pc[r] = "found"
  /\ op[r] = "checkOut"
  /\ IF activeSession[r] = <<>>
       THEN /\ Respond(r, "BadRequestException", <<>>)
            /\ UNCHANGED <<store, now, nextId, op>>
       ELSE /\ activeSession' = [activeSession EXCEPT
                                   ![r] = <<[@[1] EXCEPT !.checkOut = now]>>]
            /\ pc' = [pc EXCEPT ![r] = "save"]
            /\ UNCHANGED <<store, now, nextId, op, newRecord, result, history, query>>

\* The store executes the update of activeSession.save(): the modified path
\* (checkOut) of the document with that _id is set; the handler returns the
\* in-memory document.
SaveActiveMany(r) ==
  /\ pc[r] = "save"
  /\ op[r] = "checkOut"
  /\ store' = [i \in DOMAIN store |->
                 IF store[i].userId = activeSession[r][1].userId
                      /\ store[i].checkOut = Null
                   THEN [store[i] EXCEPT !.checkOut = activeSession[r][1].checkOut]
                   ELSE store[i]]
  /\ Respond(r, "OK", activeSession[r])
  /\ UNCHANGED <<now, nextId, op>>

SaveActive(r) ==
  /\ pc[r] = "save"
  /\ op[r] = "checkOut"
  /\ store' = [i \in DOMAIN store |->
                 IF store[i]._id = activeSession[r][1]._id
                   THEN [store[i] EXCEPT !.checkOut = activeSession[r][1].checkOut]
                   ELSE store[i]]
  /\ Respond(r, "OK", activeSession[r])
  /\ UNCHANGED <<now, nextId, op>>


\* ---------------------------------------------------------- read handlers
\* GET /attendance/status: the controller awaits service.isWorking() (the
\* read of getActiveSession) and returns { isWorking }.
ReadOps == {"status", "findAll"}

\* No read is in flight (reads are explored one at a time; they do not
\* interact with each other).
NoReadInFlight == \A q \in Reqs : ~Quiescent(q) => op[q] \notin ReadOps

CallStatus(r) ==
  /\ NoReadInFlight
  /\ Call(r, "status")

GetStatus(r) ==
  /\ pc[r] = "found"
  /\ op[r] = "status"
  /\ Respond(r, "OK", <<[isWorking |-> activeSession[r] # <<>>]>>)
  /\ UNCHANGED <<store, now, nextId, op>>

\* The documents find({ userId: MOCK_USER_ID }) matches, in store order.
UserRecords == SelectSeq(store, LAMBDA d : d.userId = MOCK_USER_ID)

Perms(n) == {f \in [1..n -> 1..n] : \A i, j \in 1..n : f[i] = f[j] => i = j}

\* sort({ checkIn: -1 }): every order of the documents with checkIn
\* descending; the order of documents with equal checkIn is whatever the
\* store produces for that query.
SortedOrders(recs) ==
  {s \in {[k \in 1..Len(recs) |-> recs[f[k]]] : f \in Perms(Len(recs))} :
     \A k \in 1..(Len(s) - 1) : s[k].checkIn >= s[k + 1].checkIn}

Min(a, b) == IF a <= b THEN a ELSE b

SkipPageTimesLimit(page, limit) == page * limit

Skip(page, limit) == (page - 1) * limit

\* .skip(skip).limit(limit)
Window(s, skip, limit) == SubSeq(s, skip + 1, Min(skip + limit, Len(s)))

\* The results the find query of findAll can produce on the current store.
findData(page, limit) ==
  {Window(s, Skip(page, limit), limit) : s \in SortedOrders(UserRecords)}

countDocuments == Len(UserRecords)

\* Math.ceil(total / limit)
LastPage(total, limit) == (total + limit - 1) \div limit

\* GET /attendance?page&limit: findAll issues the find and the
\* countDocuments queries together and awaits both.
CallFindAll(r, page, limit) ==
  /\ NoReadInFlight
  /\ Quiescent(r)
  /\ \A q \in Reqs : Quiescent(q) => r <= q
  /\ Len(history) + InFlight < MaxCalls
  /\ pc' = [pc EXCEPT ![r] = "queries"]
  /\ op' = [op EXCEPT ![r] = "findAll"]
  /\ activeSession' = [activeSession EXCEPT ![r] = <<>>]
  /\ newRecord' = [newRecord EXCEPT ![r] = <<>>]
  /\ result' = [result EXCEPT ![r] = NoResult]
  /\ query' = [query EXCEPT ![r] =
                 [page |-> page, limit |-> limit, data |-> <<>>, total |-> <<>>]]
  /\ UNCHANGED <<store, now, nextId, history>>

\* The store executes the find query.
FindDataConsumes(r) ==
  /\ pc[r] = "queries"
  /\ query[r].data = <<>>
  /\ \E d \in findData(query[r].page, query[r].limit) :
       /\ query' = [query EXCEPT ![r].data = <<d>>]
       /\ store' = SelectSeq(store, LAMBDA x : \A k \in DOMAIN d : d[k]._id # x._id)
  /\ UNCHANGED <<now, nextId, pc, op, activeSession, newRecord, result, history>>

FindData(r) ==
  /\ pc[r] = "queries"
  /\ query[r].data = <<>>
  /\ \E d \in findData(query[r].page, query[r].limit) :
       query' = [query EXCEPT ![r].data = <<d>>]
  /\ UNCHANGED <<store, now, nextId, pc, op, activeSession, newRecord, result, history>>

\* The store executes the countDocuments query.
CountDocuments(r) ==
  /\ pc[r] = "queries"
  /\ query[r].total = <<>>
  /\ query' = [query EXCEPT ![r].total = <<countDocuments>>]
  /\ UNCHANGED <<store, now, nextId, pc, op, activeSession, newRecord, result, history>>

\* Promise.all has both results: findAll returns { data, total, page,
\* lastPage }.
FindAllReturn(r) ==
  /\ pc[r] = "queries"
  /\ query[r].data # <<>>
  /\ query[r].total # <<>>
  /\ Respond(r, "OK", <<[data     |-> query[r].data[1],
                         total    |-> query[r].total[1],
                         page     |-> query[r].page,
                         lastPage |-> LastPage(query[r].total[1], query[r].limit)]>>)
  /\ UNCHANGED <<store, now, nextId, op>>

\* ------------------------------------------------------- specifications
Ops == {"checkIn", "checkOut"}

\* Requests may overlap.
Next ==
  \/ Tick
  \/ \E r \in Reqs, o \in Ops : Call(r, o)
  \/ \E r \in Reqs : FindOne(r)
  \/ \E r \in Reqs : CheckIn(r)
  \/ \E r \in Reqs : SaveNew(r)
  \/ \E r \in Reqs : CheckOut(r)
  \/ \E r \in Reqs : SaveActive(r)

Spec == Init /\ [][Next]_vars

\* Each operation runs as one read-then-write transaction: a request is
\* accepted only when no other request is in flight.
NextSerial ==
  \/ Tick
  \/ \E r \in Reqs, o \in Ops : CallSerial(r, o)
  \/ \E r \in Reqs : FindOne(r)
  \/ \E r \in Reqs : CheckIn(r)
  \/ \E r \in Reqs : SaveNew(r)
  \/ \E r \in Reqs : CheckOut(r)
  \/ \E r \in Reqs : SaveActive(r)

SpecSerial == Init /\ [][NextSerial]_vars

\* A checkIn or checkOut dispatched while no other checkIn or checkOut is in
\* flight; reads may be.
CallWrite(r, o) ==
  /\ \A q \in Reqs : ~Quiescent(q) => op[q] \in ReadOps
  /\ Call(r, o)

\* A read overlaps with a write; writes are accepted one at a time
\* (overlapping writes are explored under Spec).
NextRead ==
  \/ Tick
  \/ \E r \in Reqs, o \in Ops : CallWrite(r, o)
  \/ \E r \in Reqs : FindOne(r)
  \/ \E r \in Reqs : CheckIn(r)
  \/ \E r \in Reqs : SaveNew(r)
  \/ \E r \in Reqs : CheckOut(r)
  \/ \E r \in Reqs : SaveActive(r)
  \/ \E r \in Reqs : CallStatus(r)
  \/ \E r \in Reqs : GetStatus(r)
  \/ \E r \in Reqs, page \in 1..MaxPage, limit \in 1..MaxLimit :
       CallFindAll(r, page, limit)
  \/ \E r \in Reqs : FindData(r)
  \/ \E r \in Reqs : CountDocuments(r)
  \/ \E r \in Reqs : FindAllReturn(r)

SpecRead == Init /\ [][NextRead]_vars

\* ------------------------------------------------------------ type check
TypeOK ==
  /\ now \in 0..MaxTime
  /\ nextId \in 1..(MaxCalls + 1)
  /\ Len(store) <= MaxCalls
  /\ \A r \in Reqs : pc[r] \in {"idle", "findOne", "found", "save", "queries", "done"}
  /\ \A r \in Reqs : Len(activeSession[r]) <= 1 /\ Len(newRecord[r]) <= 1

\* ------------------------------------------------------------ properties
\* Positions of the records of user u that have checkOut unset.
OpenOf(u) == {i \in DOMAIN store : store[i].userId = u /\ store[i].checkOut = Null}

Users == {MOCK_USER_ID} \cup {store[i].userId : i \in DOMAIN store}

AllQuiescent == \A q \in Reqs : Quiescent(q)

Finished(r, o, st) == pc[r] = "done" /\ op[r] = o /\ result[r].status = st

\* C1: when operations do not overlap (SpecSerial), every user has at most
\* one record with checkOut unset, in every reachable state.
C1_AtMostOneOpen == \A u \in Users : Cardinality(OpenOf(u)) <= 1

\* A second check-in was refused while one session is open and an earlier
\* one is closed.
C1_Witness ==
  /\ Len(store) >= 2
  /\ Cardinality(OpenOf(MOCK_USER_ID)) = 1
  /\ \E k \in DOMAIN history : history[k].status = "ConflictException"

\* C2: the write of a checkIn that passed its read is unconditional: it
\* succeeds and adds one more open record whatever was written since the
\* read, so two overlapping check-ins both succeed and leave two open
\* records.
C2_CheckInRace ==
  [][\A r \in Reqs :
       (pc[r] = "save" /\ op[r] = "checkIn" /\ pc'[r] = "done")
         => /\ result'[r].status = "Created"
            /\ Cardinality(OpenOf(MOCK_USER_ID))'
                 = Cardinality(OpenOf(MOCK_USER_ID)) + 1]_vars

\* Both requests are check-ins that succeeded and both their records are
\* open.
C2_Witness ==
  \E r, q \in Reqs :
    /\ r # q
    /\ Finished(r, "checkIn", "Created")
    /\ Finished(q, "checkIn", "Created")
    /\ \E i, j \in OpenOf(MOCK_USER_ID) :
         /\ i # j
         /\ store[i]._id = result[r].body[1]._id
         /\ store[j]._id = result[q].body[1]._id

\* C3: a checkIn whose read runs while the user has an open session finds
\* it, fails with ConflictException, and neither step changes the store.
C3_CheckInConflict ==
  [][\A r \in Reqs :
       op[r] = "checkIn" =>
         /\ (pc[r] = "findOne" /\ pc'[r] = "found" /\ OpenOf(MOCK_USER_ID) # {})
              => (activeSession'[r] # <<>> /\ store' = store)
         /\ (pc[r] = "found" /\ activeSession[r] # <<>> /\ pc'[r] # "found")
              => /\ pc'[r] = "done"
                 /\ result'[r].status = "ConflictException"
                 /\ result'[r].body = <<>>
                 /\ store' = store]_vars

C3_Witness ==
  \E r \in Reqs :
    /\ Finished(r, "checkIn", "ConflictException")
    /\ OpenOf(MOCK_USER_ID) # {}

\* C4: a checkOut whose read runs while the user has no open session finds
\* nothing, fails with BadRequestException, and neither step changes the
\* store.
C4_CheckOutInvalid ==
  [][\A r \in Reqs :
       op[r] = "checkOut" =>
         /\ (pc[r] = "findOne" /\ pc'[r] = "found" /\ OpenOf(MOCK_USER_ID) = {})
              => (activeSession'[r] = <<>> /\ store' = store)
         /\ (pc[r] = "found" /\ activeSession[r] = <<>> /\ pc'[r] # "found")
              => /\ pc'[r] = "done"
                 /\ result'[r].status = "BadRequestException"
                 /\ result'[r].body = <<>>
                 /\ store' = store]_vars

\* A check-out was refused although the user has records (all closed).
C4_Witness ==
  \E r \in Reqs :
    /\ Finished(r, "checkOut", "BadRequestException")
    /\ store # <<>>
    /\ OpenOf(MOCK_USER_ID) = {}

\* C5: the record a successful checkOut returns has checkOut set and a
\* duration field equal to floor((checkOut - checkIn) / 1000 ms).
C5_DurationComputed ==
  \A r \in Reqs :
    Finished(r, "checkOut", "OK") =>
      LET d == result[r].body[1] IN
        /\ d.checkOut # Null
        /\ "duration" \in DOMAIN d
        /\ d.duration = (d.checkOut - d.checkIn) \div 1000

\* C6: when the insert of a checkIn lands on a store without open session
\* of the user, right after it isWorking is true and the open records of
\* the user are exactly the new one.
C6_WorkingAfterCheckIn ==
  [][\A r \in Reqs :
       (pc[r] = "save" /\ op[r] = "checkIn" /\ pc'[r] = "done"
          /\ OpenOf(MOCK_USER_ID) = {})
         => /\ result'[r].status = "Created"
            /\ isWorking'
            /\ {store'[i]._id : i \in OpenOf(MOCK_USER_ID)'}
                 = {newRecord[r][1]._id}]_vars

\* A check-in succeeded after an earlier session was closed, and its record
\* is the only open one.
C6_Witness ==
  \E r \in Reqs :
    /\ Finished(r, "checkIn", "Created")
    /\ Len(store) >= 2
    /\ {store[i]._id : i \in OpenOf(MOCK_USER_ID)} = {result[r].body[1]._id}

\* C7: right after a successful checkOut has returned, with no request in
\* flight, isWorking is false.
C7_NotWorkingAfterCheckOut ==
  (/\ AllQuiescent
   /\ history # <<>>
   /\ history[Len(history)] = [op |-> "checkOut", status |-> "OK"])
    => ~isWorking

Scenario(n) ==
  /\ Len(history) >= n
  /\ n >= 1 => history[1] = [op |-> "checkIn", status |-> "Created"]
  /\ n >= 2 => history[2] = [op |-> "checkOut", status |-> "OK"]
  /\ n >= 3 => history[3].op = "checkOut"
  /\ n >= 4 => history[4].op = "checkIn"

\* C8: in the serial sequence checkIn, checkOut, checkOut, checkIn the
\* second checkOut fails with BadRequestException and changes nothing, the
\* last checkIn succeeds and appends a second, open record, and the first
\* record stays closed with the values it had.
C8_Reopen ==
  /\ [](/\ Scenario(3) => /\ history[3].status = "BadRequestException"
                          /\ (Len(history) = 3 => Len(store) = 1)
        /\ Scenario(4) => /\ history[4].status = "Created"
                          /\ (Len(history) = 4 /\ AllQuiescent =>
                                /\ Len(store) = 2
                                /\ store[2].checkOut = Null
                                /\ store[2].userId = MOCK_USER_ID
                                /\ store[1].checkOut # Null))
  /\ [][/\ (Scenario(2) /\ Len(history') <= 4) => store'[1] = store[1]
        /\ (Scenario(2) /\ Len(history) = 2
              /\ \E r \in Reqs : ~Quiescent(r) /\ op[r] = "checkOut")
             => store' = store]_vars

C8_Witness ==
  /\ history = << [op |-> "checkIn",  status |-> "Created"],
                  [op |-> "checkOut", status |-> "OK"],
                  [op |-> "checkOut", status |-> "BadRequestException"],
                  [op |-> "checkIn",  status |-> "Created"] >>
  /\ Len(store) = 2
  /\ store[1].checkOut # Null
  /\ store[2].checkOut = Null

\* C9: a record's checkIn never changes, and its checkOut, once set, never
\* changes again (so no record goes from closed back to open).
C9_WriteOnce ==
  [][\A i \in DOMAIN store :
       /\ store'[i].checkIn = store[i].checkIn
       /\ store[i].checkOut # Null => store'[i].checkOut = store[i].checkOut]_vars

\* C10: a successful checkIn constructs a record with the user's id,
\* checkIn = now and checkOut unset, appends exactly that record to the
\* store, returns it, and leaves every earlier record as it was.
C10_CheckInFrame ==
  [][\A r \in Reqs :
       op[r] = "checkIn" =>
         /\ (pc[r] = "found" /\ pc'[r] = "save")
              => /\ newRecord'[r][1].userId = MOCK_USER_ID
                 /\ newRecord'[r][1].checkIn = now
                 /\ newRecord'[r][1].checkOut = Null
                 /\ store' = store
         /\ (pc[r] = "save" /\ pc'[r] = "done")
              => /\ result'[r].status = "Created"
                 /\ Len(store') = Len(store) + 1
                 /\ SubSeq(store', 1, Len(store)) = store
                 /\ store'[Len(store')] = newRecord[r][1]
                 /\ result'[r].body = <<store'[Len(store')]>>
                 /\ store'[Len(store')].userId = MOCK_USER_ID
                 /\ store'[Len(store')].checkOut = Null]_vars

\* A check-in succeeded on a store that already held records; its record is
\* in the store as returned.
C10_Witness ==
  \E r \in Reqs :
    /\ Finished(r, "checkIn", "Created")
    /\ \E i \in DOMAIN store : i >= 2 /\ store[i] = result[r].body[1]

\* C13: the clock never goes backwards (Tick only advances it), and every
\* record with checkOut set has checkIn <= checkOut, so the elapsed time of
\* a closed session is never negative.
C13_CheckInBeforeCheckOut ==
  \A i \in DOMAIN store :
    store[i].checkOut # Null => store[i].checkIn <= store[i].checkOut

\* A session was closed at a later clock value than it was opened.
C13_Witness ==
  \E i \in DOMAIN store :
    store[i].checkOut # Null /\ store[i].checkIn < store[i].checkOut

Count(o, st) ==
  Cardinality({k \in DOMAIN history : history[k] = [op |-> o, status |-> st]})

\* C15: the number of checkOut calls that returned successfully never
\* exceeds the number of checkIn calls that returned successfully.
C15_OneCheckOutPerSession ==
  Count("checkOut", "OK") <= Count("checkIn", "Created")

RecordsOf(u) == {i \in DOMAIN store : store[i].userId = u}

Max(a, b) == IF a >= b THEN a ELSE b

\* Concatenations of one possible result per page, pages p..last, limit L.
RECURSIVE Concats(_, _, _)
Concats(p, last, L) ==
  IF p > last
    THEN {<<>>}
    ELSE {d \o rest : d \in findData(p, L), rest \in Concats(p + 1, last, L)}

\* C11: on a fixed store, for every limit, concatenating the data of pages
\* 1..lastPage (whatever each page's query returns) gives every record of
\* the user exactly once in descending checkIn order.
C11_PagesPartition ==
  \A L \in 1..MaxLimit :
    \A c \in Concats(1, LastPage(countDocuments, L), L) :
      c \in SortedOrders(UserRecords)

\* d is the window (page-1)*limit+1 .. min(page*limit, N) of a descending
\* checkIn order of the records of user u in the store.
IsWindowOf(d, u, page, limit) ==
  LET U    == RecordsOf(u)
      skip == (page - 1) * limit
  IN  /\ Len(d) = Max(0, Min(limit, Cardinality(U) - skip))
      /\ \A k \in DOMAIN d : \E i \in U : store[i] = d[k]
      /\ \A k, j \in DOMAIN d : d[k]._id = d[j]._id => k = j
      /\ \A k, j \in DOMAIN d : k < j => d[k].checkIn >= d[j].checkIn
      /\ \A k \in DOMAIN d :
           /\ Cardinality({i \in U : store[i].checkIn > d[k].checkIn}) <= skip + k - 1
           /\ Cardinality({i \in U : store[i].checkIn >= d[k].checkIn}) >= skip + k

\* C12: on the store it runs against, the find query of findAll(page,
\* limit) yields the records at positions (page-1)*limit+1 ..
\* min(page*limit, N) of a descending checkIn order, countDocuments yields
\* N, and findAll returns them with page echoed and lastPage =
\* ceil(total / limit).
C12_FindAllWindow ==
  [][\A r \in Reqs :
       (op[r] = "findAll" /\ pc[r] = "queries") =>
         /\ (query[r].data = <<>> /\ query'[r].data # <<>>)
              => IsWindowOf(query'[r].data[1], MOCK_USER_ID,
                            query[r].page, query[r].limit)
         /\ (query[r].total = <<>> /\ query'[r].total # <<>>)
              => query'[r].total[1] = Cardinality(RecordsOf(MOCK_USER_ID))
         /\ pc'[r] = "done"
              => LET b == result'[r].body[1] IN
                   /\ result'[r].status = "OK"
                   /\ b.data = query[r].data[1]
                   /\ b.total = query[r].total[1]
                   /\ b.page = query[r].page
                   /\ b.lastPage * query[r].limit >= b.total
                   /\ (b.lastPage - 1) * query[r].limit < b.total]_vars

\* findAll returned page 2 of 2 of a user with two records: the older one.
C12_Witness ==
  \E r \in Reqs :
    /\ Finished(r, "findAll", "OK")
    /\ result[r].body[1].page = 2
    /\ result[r].body[1].total = 2
    /\ result[r].body[1].lastPage = 2
    /\ Len(result[r].body[1].data) = 1
    /\ \E i \in DOMAIN store :
         store[i].checkIn > result[r].body[1].data[1].checkIn

\* C14: no step of a status or findAll request changes the store, and the
\* status request answers isWorking = true iff a record of the user has
\* checkOut unset when it reads.
C14_ReadsArePure ==
  [][\A r \in Reqs :
       /\ (op'[r] \in ReadOps /\ (pc'[r] # pc[r] \/ query'[r] # query[r]))
            => store' = store
       /\ (op[r] = "status" /\ pc[r] = "findOne" /\ pc'[r] = "found")
            => (activeSession'[r] # <<>> <=> OpenOf(MOCK_USER_ID) # {})
       /\ (op[r] = "status" /\ pc[r] = "found" /\ pc'[r] = "done")
            => /\ result'[r].status = "OK"
               /\ result'[r].body[1].isWorking = (activeSession[r] # <<>>)]_vars

\* A status request answered true and a findAll returned on a store with
\* records.
C14_Witness ==
  /\ store # <<>>
  /\ \E r \in Reqs :
       /\ Finished(r, "status", "OK")
       /\ result[r].body[1].isWorking
  /\ \E r \in Reqs :
       /\ Finished(r, "findAll", "OK")
       /\ result[r].body[1].data # <<>>

\* C16: every result findAll returns has
\* Len(data) = min(limit, max(0, total - (page-1)*limit)).
C16_FindAllConsistent ==
  [][\A r \in Reqs :
       (op[r] = "findAll" /\ pc[r] = "queries" /\ pc'[r] = "done")
         => LET b == result'[r].body[1] IN
              Len(b.data)
                = Min(query[r].limit,
                      Max(0, b.total - (b.page - 1) * query[r].limit))]_vars

====
